---------------------------- MODULE Spec2Model ----------------------------
(***************************************************************************)
(* A model of pyxero's Manager (src/xero/manager.py): the request builders  *)
(* (get / save / put / filter / all), the _get_data wrapper that sends the  *)
(* request and classifies the response, the XML decoder (walk_dom,          *)
(* convert_to_dict, _get_results) and the encoder (dict_to_xml,             *)
(* _prepare_data_for_save).                                                 *)
(*                                                                         *)
(* Python strings are sequences of one-character strings, so that the       *)
(* string operations of the source (word[-1], word[:-1], split, replace,    *)
(* endswith, lower, strip, quote) are computed and not tabulated.           *)
(* Python values are records tagged by their type in the field ty.          *)
(***************************************************************************)
EXTENDS Integers, Sequences, FiniteSets, TLC

VARIABLES
    self,       \* the Manager: its name, url and singular, bound at construction
    pc,         \* where the method in progress is: "idle", "sent" or "done"
    op,         \* the decorated method in progress (method_name of _get_data)
    request,    \* the request descriptor handed to the transport
    calls,      \* the number of transport calls the method in progress has made
    response,   \* the response the transport gave
    outcome,    \* what the method returned or raised
    dom,        \* the parsed document given to walk_dom
    deep_list,  \* walk_dom's result, convert_to_dict's argument
    decoded,    \* convert_to_dict's result
    data,       \* the value given to save, put or _prepare_data_for_save
    rev,        \* whether dict.keys() enumerates in the reverse order
    body,       \* the document _prepare_data_for_save produced
    kwargs      \* the keyword arguments of filter

vars == <<self, pc, op, request, calls, response, outcome,
          dom, deep_list, decoded, data, rev, body, kwargs>>

-----------------------------------------------------------------------------
(* Python values *)

None == [ty |-> "None"]
Str(s) == [ty |-> "str", s |-> s]
Bool(b) == [ty |-> "bool", b |-> b]
Int_(i) == [ty |-> "int", i |-> i]
Tuple(t) == [ty |-> "tuple", t |-> t]
List(l) == [ty |-> "list", l |-> l]
Dict(d) == [ty |-> "dict", d |-> d]
Raise(e) == [ty |-> "raise", exc |-> e]

EmptyDict == [k \in {} |-> None]

Range(f) == {f[i] : i \in DOMAIN f}

Min(a, b) == IF a < b THEN a ELSE b

\* out[key] = value
\* a mapping without the keys outside S
Restrict(f, S) == [k \in S |-> f[k]]

Put(out, key, value) ==
    [k \in DOMAIN out \cup {key} |-> IF k = key THEN value ELSE out[k]]

\* the first raised exception of a sequence of values, or None
FirstRaise(vals) ==
    IF \E i \in 1..Len(vals) : vals[i].ty = "raise"
    THEN vals[CHOOSE i \in 1..Len(vals) :
                /\ vals[i].ty = "raise"
                /\ \A j \in 1..(i - 1) : vals[j].ty # "raise"]
    ELSE None

-----------------------------------------------------------------------------
(* Python string operations *)

UpperCase == <<"A", "B", "C", "D", "E", "F", "G", "H", "I", "J", "K", "L", "M",
               "N", "O", "P", "Q", "R", "S", "T", "U", "V", "W", "X", "Y", "Z">>
LowerCase == <<"a", "b", "c", "d", "e", "f", "g", "h", "i", "j", "k", "l", "m",
               "n", "o", "p", "q", "r", "s", "t", "u", "v", "w", "x", "y", "z">>
Digits == <<"0", "1", "2", "3", "4", "5", "6", "7", "8", "9">>

IndexIn(c, alphabet) == CHOOSE i \in 1..Len(alphabet) : alphabet[i] = c

LowerChar(c) ==
    IF c \in Range(UpperCase) THEN LowerCase[IndexIn(c, UpperCase)] ELSE c

lower(s) == [i \in 1..Len(s) |-> LowerChar(s[i])]

endswith(s, suffix) ==
    /\ Len(s) >= Len(suffix)
    /\ SubSeq(s, Len(s) - Len(suffix) + 1, Len(s)) = suffix

IsSpace(c) == c \in {" ", "\n", "\t"}

RECURSIVE lstrip(_)
lstrip(s) == IF s # <<>> /\ IsSpace(Head(s)) THEN lstrip(Tail(s)) ELSE s

RECURSIVE rstrip(_)
rstrip(s) ==
    IF s # <<>> /\ IsSpace(s[Len(s)]) THEN rstrip(SubSeq(s, 1, Len(s) - 1)) ELSE s

strip(s) == rstrip(lstrip(s))

\* s.replace(old, new) for a one-character old
replace(s, old, new) == [i \in 1..Len(s) |-> IF s[i] = old THEN new ELSE s[i]]

\* s with every occurrence of the character c removed
remove(s, c) == SelectSeq(s, LAMBDA x : x # c)

\* s.find(sep, start): the first index from start at which sep occurs, or 0
find(s, sep, start) ==
    LET at == {i \in start..(Len(s) - Len(sep) + 1) : SubSeq(s, i, i + Len(sep) - 1) = sep}
    IN  IF at = {} THEN 0 ELSE CHOOSE i \in at : \A j \in at : i <= j

\* s.split(sep): the pieces between the leftmost non-overlapping separators
RECURSIVE split_from(_, _, _)
split_from(s, sep, start) ==
    LET i == find(s, sep, start)
    IN  IF i = 0 THEN <<SubSeq(s, start, Len(s))>>
        ELSE <<SubSeq(s, start, i - 1)>> \o split_from(s, sep, i + Len(sep))

split(s, sep) == split_from(s, sep, 1)

\* sep.join(parts)
RECURSIVE join(_, _)
join(sep, parts) ==
    IF parts = <<>> THEN <<>>
    ELSE IF Len(parts) = 1 THEN parts[1]
    ELSE parts[1] \o sep \o join(sep, Tail(parts))

\* the concatenation of the strings ps[lo..hi]
RECURSIVE concat_range(_, _, _)
concat_range(ps, lo, hi) ==
    IF lo > hi THEN <<>>
    ELSE IF lo = hi THEN ps[lo]
    ELSE concat_range(ps, lo, (lo + hi) \div 2) \o concat_range(ps, (lo + hi) \div 2 + 1, hi)

concat(ps) == concat_range(ps, 1, Len(ps))

contains(s, c) == \E i \in 1..Len(s) : s[i] = c

-----------------------------------------------------------------------------
(* The scalar types the decoder produces and the encoder renders.           *)
(* Decimal, UUID, int and dateutil's parse are library code; each is        *)
(* modelled on the literal forms the model's texts are built from.          *)

IsDigits(s) == \A i \in 1..Len(s) : s[i] \in Range(Digits)

RECURSIVE int_of(_)
int_of(s) ==
    IF s = <<>> THEN 0
    ELSE 10 * int_of(SubSeq(s, 1, Len(s) - 1)) + (IndexIn(s[Len(s)], Digits) - 1)

RECURSIVE str_nat(_)
str_nat(n) ==
    IF n < 10 THEN <<Digits[n + 1]>>
    ELSE str_nat(n \div 10) \o <<Digits[(n % 10) + 1]>>

\* n in decimal, zero-padded on the left to width w
RECURSIVE zfill(_, _)
zfill(s, w) == IF Len(s) >= w THEN s ELSE zfill(<<"0">> \o s, w)

\* decimal.Decimal(val): [sign] digits [. digits]; exponents, NaN and
\* Infinity are outside the texts of the model
Decimal(val) ==
    LET t == strip(val)
        neg == t # <<>> /\ Head(t) = "-"
        u == IF t # <<>> /\ Head(t) \in {"-", "+"} THEN Tail(t) ELSE t
        parts == split(u, <<".">>)
        ip == parts[1]
        fp == IF Len(parts) = 2 THEN parts[2] ELSE <<>>
    IN  IF Len(parts) <= 2 /\ IsDigits(ip) /\ IsDigits(fp) /\ Len(ip) + Len(fp) > 0
        THEN [ty |-> "Decimal", neg |-> neg, coef |-> int_of(ip \o fp), exp |-> -Len(fp)]
        ELSE Raise("InvalidOperation")

\* str(Decimal) in its plain notation (exponent <= 0, more than -6 left digits)
str_Decimal(v) ==
    LET digits == str_nat(v.coef)
        dotplace == v.exp + Len(digits)
        sign == IF v.neg THEN <<"-">> ELSE <<>>
    IN  IF v.exp = 0 THEN sign \o digits
        ELSE IF dotplace <= 0
             THEN sign \o <<"0", ".">> \o zfill(digits, -v.exp)
             ELSE sign \o SubSeq(digits, 1, dotplace) \o <<".">>
                       \o SubSeq(digits, dotplace + 1, Len(digits))

\* int(val)
int(val) ==
    LET t == strip(val)
        neg == t # <<>> /\ Head(t) = "-"
        u == IF t # <<>> /\ Head(t) \in {"-", "+"} THEN Tail(t) ELSE t
    IN  IF u # <<>> /\ IsDigits(u)
        THEN Int_(IF neg THEN -int_of(u) ELSE int_of(u))
        ELSE Raise("ValueError")

str_int(i) == IF i < 0 THEN <<"-">> \o str_nat(-i) ELSE str_nat(i)

HexDigits == Range(Digits) \cup {"a", "b", "c", "d", "e", "f", "A", "B", "C", "D", "E", "F"}

\* s.replace(old, new) for strings old and new
replace_str(s, old, new) == join(new, split(s, old))

RECURSIVE strip_chars(_, _)
strip_chars(s, cs) ==
    IF s # <<>> /\ Head(s) \in cs THEN strip_chars(Tail(s), cs)
    ELSE IF s # <<>> /\ s[Len(s)] \in cs THEN strip_chars(SubSeq(s, 1, Len(s) - 1), cs)
    ELSE s

\* uuid.UUID(val)
UUID(val) ==
    LET h1 == replace_str(replace_str(val, <<"u", "r", "n", ":">>, <<>>),
                          <<"u", "u", "i", "d", ":">>, <<>>)
        hex == remove(strip_chars(h1, {"{", "}"}), "-")
    IN  IF Len(hex) = 32 /\ \A i \in 1..32 : hex[i] \in HexDigits
        THEN [ty |-> "UUID", hex |-> lower(hex)]
        ELSE Raise("ValueError")

str_UUID(v) ==
    SubSeq(v.hex, 1, 8) \o <<"-">> \o SubSeq(v.hex, 9, 12) \o <<"-">>
        \o SubSeq(v.hex, 13, 16) \o <<"-">> \o SubSeq(v.hex, 17, 20) \o <<"-">>
        \o SubSeq(v.hex, 21, 32)

\* dateutil.parser.parse(val): blanks around the text are skipped, the date
\* is YYYY-MM-DD, optionally followed by T or a space and HH:MM or HH:MM:SS,
\* and a Z after the time makes the result aware, in UTC; anything else the
\* model's texts hold is no date
parse(val) ==
    LET v0 == strip(val)
        utc == Len(v0) > 10 /\ v0[Len(v0)] = "Z"
        v == IF utc THEN SubSeq(v0, 1, Len(v0) - 1) ELSE v0
        n == Len(v)
        num(a, b) == int_of(SubSeq(v, a, b))
        dateOk == /\ n >= 10
                  /\ IsDigits(SubSeq(v, 1, 4)) /\ v[5] = "-"
                  /\ IsDigits(SubSeq(v, 6, 7)) /\ v[8] = "-"
                  /\ IsDigits(SubSeq(v, 9, 10))
                  /\ num(6, 7) \in 1..12 /\ num(9, 10) \in 1..31
        timeOk == /\ n \in {16, 19}
                  /\ v[11] \in {"T", " "}
                  /\ IsDigits(SubSeq(v, 12, 13)) /\ v[14] = ":"
                  /\ IsDigits(SubSeq(v, 15, 16))
                  /\ num(12, 13) < 24 /\ num(15, 16) < 60
                  /\ n = 19 => /\ v[17] = ":"
                               /\ IsDigits(SubSeq(v, 18, 19))
                               /\ num(18, 19) < 60
        ymd == <<num(1, 4), num(6, 7), num(9, 10)>>
        hms == <<num(12, 13), num(15, 16), IF n = 19 THEN num(18, 19) ELSE 0>>
    IN  IF dateOk /\ n = 10 /\ ~utc
        THEN [ty |-> "datetime", ymd |-> ymd, hms |-> <<0, 0, 0>>]
        ELSE IF dateOk /\ timeOk /\ utc
        THEN [ty |-> "datetime", ymd |-> ymd, hms |-> hms, tzinfo |-> "tzutc"]
        ELSE IF dateOk /\ timeOk
        THEN [ty |-> "datetime", ymd |-> ymd, hms |-> hms]
        ELSE Raise("ValueError")

\* datetime.date()
date(v) == IF v.ty = "raise" THEN v ELSE [ty |-> "date", ymd |-> v.ymd]

str_date(v) ==
    zfill(str_nat(v.ymd[1]), 4) \o <<"-">> \o zfill(str_nat(v.ymd[2]), 2)
        \o <<"-">> \o zfill(str_nat(v.ymd[3]), 2)

str_time(v) ==
    zfill(str_nat(v.hms[1]), 2) \o <<":">> \o zfill(str_nat(v.hms[2]), 2)
        \o <<":">> \o zfill(str_nat(v.hms[3]), 2)

\* datetime.isoformat()
isoformat(v) == str_date(v) \o <<"T">> \o str_time(v)

\* str(v) for the scalar values
str(v) ==
    CASE v.ty = "str" -> v.s
      [] v.ty = "bool" -> IF v.b THEN <<"T", "r", "u", "e">> ELSE <<"F", "a", "l", "s", "e">>
      [] v.ty = "int" -> str_int(v.i)
      [] v.ty = "Decimal" -> str_Decimal(v)
      [] v.ty = "UUID" -> str_UUID(v)
      [] v.ty = "date" -> str_date(v)
      [] v.ty = "datetime" -> str_date(v) \o <<" ">> \o str_time(v)
      [] v.ty = "None" -> <<"N", "o", "n", "e">>

-----------------------------------------------------------------------------
(* Manager's class attributes *)

DATETIME_FIELDS ==
    {<<"U", "p", "d", "a", "t", "e", "d", "D", "a", "t", "e", "U", "T", "C">>,
     <<"U", "p", "d", "a", "t", "e", "d">>,
     <<"F", "u", "l", "l", "y", "P", "a", "i", "d", "O", "n", "D", "a", "t", "e">>,
     <<"D", "a", "t", "e", "T", "i", "m", "e", "U", "T", "C">>,
     <<"C", "r", "e", "a", "t", "e", "d", "D", "a", "t", "e", "U", "T", "C">>}

DATE_FIELDS ==
    {<<"D", "u", "e", "D", "a", "t", "e">>,
     <<"D", "a", "t", "e">>,
     <<"P", "a", "y", "m", "e", "n", "t", "D", "a", "t", "e">>,
     <<"S", "t", "a", "r", "t", "D", "a", "t", "e">>,
     <<"E", "n", "d", "D", "a", "t", "e">>,
     <<"P", "e", "r", "i", "o", "d", "L", "o", "c", "k", "D", "a", "t", "e">>,
     <<"D", "a", "t", "e", "O", "f", "B", "i", "r", "t", "h">>,
     <<"O", "p", "e", "n", "i", "n", "g", "B", "a", "l", "a", "n", "c", "e", "D", "a", "t", "e">>}

BOOLEAN_FIELDS ==
    {<<"I", "s", "S", "u", "p", "p", "l", "i", "e", "r">>,
     <<"I", "s", "C", "u", "s", "t", "o", "m", "e", "r">>,
     <<"I", "s", "D", "e", "m", "o", "C", "o", "m", "p", "a", "n", "y">>,
     <<"P", "a", "y", "s", "T", "a", "x">>,
     <<"I", "s", "A", "u", "t", "h", "o", "r", "i", "s", "e", "d", "T", "o", "A", "p", "p", "r", "o", "v", "e", "T", "i", "m", "e", "s", "h", "e", "e", "t", "s">>,
     <<"I", "s", "A", "u", "t", "h", "o", "r", "i", "s", "e", "d", "T", "o", "A", "p", "p", "r", "o", "v", "e", "L", "e", "a", "v", "e">>,
     <<"H", "a", "s", "H", "E", "L", "P", "D", "e", "b", "t">>,
     <<"A", "u", "s", "t", "r", "a", "l", "i", "a", "n", "R", "e", "s", "i", "d", "e", "n", "t", "F", "o", "r", "T", "a", "x", "P", "u", "r", "p", "o", "s", "e", "s">>,
     <<"T", "a", "x", "F", "r", "e", "e", "T", "h", "r", "e", "s", "h", "o", "l", "d", "C", "l", "a", "i", "m", "e", "d">>,
     <<"H", "a", "s", "S", "F", "S", "S", "D", "e", "b", "t">>,
     <<"E", "l", "i", "g", "i", "b", "l", "e", "T", "o", "R", "e", "c", "e", "i", "v", "e", "L", "e", "a", "v", "e", "L", "o", "a", "d", "i", "n", "g">>,
     <<"I", "s", "E", "x", "e", "m", "p", "t", "F", "r", "o", "m", "T", "a", "x">>,
     <<"I", "s", "E", "x", "e", "m", "p", "t", "F", "r", "o", "m", "S", "u", "p", "e", "r">>}

DECIMAL_FIELDS ==
    {<<"H", "o", "u", "r", "s">>,
     <<"N", "u", "m", "b", "e", "r", "O", "f", "U", "n", "i", "t">>}

INTEGER_FIELDS ==
    {<<"F", "i", "n", "a", "n", "c", "i", "a", "l", "Y", "e", "a", "r", "E", "n", "d", "D", "a", "y">>,
     <<"F", "i", "n", "a", "n", "c", "i", "a", "l", "Y", "e", "a", "r", "E", "n", "d", "M", "o", "n", "t", "h">>}

NO_SEND_FIELDS ==
    {<<"U", "p", "d", "a", "t", "e", "d", "D", "a", "t", "e", "U", "T", "C">>}

GUID_FIELDS ==
    {<<"E", "m", "p", "l", "o", "y", "e", "e", "I", "D">>}

PLURAL_EXCEPTIONS ==
    (<<"A", "d", "d", "r", "e", "s", "s", "e">> :> <<"A", "d", "d", "r", "e", "s", "s">>)
isplural(word) == LowerChar(word[Len(word)]) = "s"

singular(word) == IF isplural(word) THEN SubSeq(word, 1, Len(word) - 1) ELSE word

-----------------------------------------------------------------------------
(* The decoder: Manager.walk_dom and Manager.convert_to_dict *)

\* DOM nodes: an element has a tagName and childNodes, a text node has data
Element(tagName, childNodes) == [tagName |-> tagName, childNodes |-> childNodes]
Text(chars) == [data |-> chars]

\* the loop of walk_dom over dom.childNodes: a tag name followed by the tuple
\* of its subtree, or the stripped text of a text node that is not blank
RECURSIVE walk_nodes(_)
walk_nodes(childNodes) ==
    concat([i \in 1..Len(childNodes) |->
               LET node == childNodes[i]
               IN  IF "tagName" \in DOMAIN node
                   THEN <<Str(node.tagName), Tuple(walk_nodes(node.childNodes))>>
                   ELSE IF strip(node.data) # <<>>
                        THEN <<Str(strip(node.data))>>
                        ELSE <<>>])

walk_dom(document) == walk_nodes(document.childNodes)

\* lines 100-111: the value of a leaf under key, from its text
coerce(key, val) ==
    IF key \in DECIMAL_FIELDS THEN Decimal(val)
    ELSE IF key \in BOOLEAN_FIELDS THEN Bool(lower(val) = <<"t", "r", "u", "e">>)
    ELSE IF key \in DATETIME_FIELDS THEN parse(val)
    ELSE IF key \in DATE_FIELDS THEN date(parse(val))
    ELSE IF key \in GUID_FIELDS \/ endswith(key, <<"I", "D">>) THEN UUID(val)
    ELSE IF key \in INTEGER_FIELDS THEN int(val)
    ELSE Str(val)

\* lines 119-120 and 130-131: a mapping whose only key is the singular of
\* key becomes a one-element list
is_collection(key, value) ==
    isplural(key) /\ DOMAIN value.d = {singular(key)}

RECURSIVE convert_to_dict(_)
RECURSIVE convert_items(_, _, _, _)

\* lines 90-122: the loop over zip(keys, lists), out being the mapping so far
convert_items(keys, lists, i, out) ==
    IF i > Min(Len(keys), Len(lists)) THEN Dict(out)
    ELSE LET key == keys[i].s
             sub == lists[i].t
         IN  IF sub = <<>> THEN convert_items(keys, lists, i + 1, out)
             ELSE LET deeper == convert_to_dict(sub)
                      value ==
                          IF Len(sub) = 1 THEN coerce(key, sub[1].s)
                          ELSE IF deeper.ty = "dict" /\ is_collection(key, deeper)
                               THEN List(<<deeper.d[singular(key)]>>)
                               ELSE deeper
                  IN  IF value.ty = "raise" THEN value
                      ELSE convert_items(keys, lists, i + 1, Put(out, key, value))

convert_to_dict(dl) ==
    IF Len(dl) > 2
    THEN LET lists == SelectSeq(dl, LAMBDA l : l.ty = "tuple")
             keys == SelectSeq(dl, LAMBDA l : l.ty = "str")
         IN  IF Len(keys) > 1 /\ Cardinality(Range(keys)) = 1
             THEN LET each == [i \in 1..Len(lists) |-> convert_to_dict(lists[i].t)]
                  IN  IF FirstRaise(each) # None THEN FirstRaise(each) ELSE List(each)
             ELSE convert_items(keys, lists, 1, EmptyDict)
    ELSE IF Len(dl) = 2
    THEN LET key == dl[1].s
             deeper == convert_to_dict(dl[2].t)
         IN  IF deeper.ty = "raise" THEN deeper
             ELSE IF ~isplural(key) THEN Dict(key :> deeper)
             ELSE IF deeper.ty # "dict" THEN Raise("AttributeError")
             ELSE IF is_collection(key, deeper)
                  THEN Dict(key :> List(<<deeper.d[singular(key)]>>))
                  ELSE Dict(key :> deeper)
    ELSE IF Len(dl) = 1 THEN dl[1]
    ELSE Raise("IndexError")

-----------------------------------------------------------------------------
(* The encoder: Manager.dict_to_xml and Manager._prepare_data_for_save *)

\* Manager.__init__
Manager(nm, url) ==
    [name |-> nm,
     url |-> url,
     singular |-> IF nm[Len(nm)] = "s" THEN SubSeq(nm, 1, Len(nm) - 1) ELSE nm]

\* dict.keys(): an enumeration of the keys, in an order the language leaves
\* open; r chooses between one order and its reverse
RECURSIVE SetToSeq(_)
SetToSeq(S) ==
    IF S = {} THEN <<>>
    ELSE LET x == CHOOSE x \in S : TRUE IN <<x>> \o SetToSeq(S \ {x})

Reverse(s) == [i \in 1..Len(s) |-> s[Len(s) + 1 - i]]

keys(d, r) == IF r THEN Reverse(SetToSeq(DOMAIN d.d)) ELSE SetToSeq(DOMAIN d.d)

\* xml.etree.ElementTree.Element(tag)
ETElement(tag) == [tag |-> tag, text |-> None, children |-> <<>>]

\* SubElement(parent, tag), the new element being already filled in
SubElement(parent, child) == [parent EXCEPT !.children = Append(@, child)]

\* an encoder that sends every key
no_send_never(key) == FALSE

\* line 144: a key that is never sent
no_send(key) == key \in NO_SEND_FIELDS

\* line 165: the tag of the items of a list under a plural key
item_tag(plural_name) ==
    IF plural_name \in DOMAIN PLURAL_EXCEPTIONS
    THEN PLURAL_EXCEPTIONS[plural_name]
    ELSE plural_name

RECURSIVE dict_to_xml(_, _, _)
RECURSIVE dict_to_xml_keys(_, _, _, _)
RECURSIVE dict_to_xml_items(_, _, _)

\* lines 147-181: the element made for one key of the mapping
key_element(key, sub_data, r) ==
    LET elm == ETElement(key)
        is_list == sub_data.ty \in {"list", "tuple"}
        is_plural == key[Len(key)] = "s"
        plural_name == SubSeq(key, 1, Len(key) - 1)
    IN  IF sub_data.ty = "dict" THEN dict_to_xml(elm, sub_data, r)
        ELSE IF is_list
        THEN IF is_plural
             THEN [elm EXCEPT !.children =
                      [i \in 1..Len(sub_data.l) |->
                          dict_to_xml(ETElement(item_tag(plural_name)),
                                      IF sub_data.l[i].ty = "Decimal"
                                      THEN Str(str(sub_data.l[i]))
                                      ELSE sub_data.l[i],
                                      r)]]
             ELSE dict_to_xml_items(elm, sub_data.l, r)
        ELSE [elm EXCEPT !.text = Str(str(sub_data))]

\* lines 176-177: every item of a list under a key that is no plural is
\* written into the key's own element
dict_to_xml_items(elm, items, r) ==
    IF items = <<>> THEN elm
    ELSE dict_to_xml_items(dict_to_xml(elm, Head(items), r), Tail(items), r)

\* lines 143-181: the loop over data.keys()
dict_to_xml_keys(root_elm, d, ks, r) ==
    IF ks = <<>> THEN root_elm
    ELSE IF no_send(Head(ks)) THEN dict_to_xml_keys(root_elm, d, Tail(ks), r)
    ELSE dict_to_xml_keys(SubElement(root_elm, key_element(Head(ks), d.d[Head(ks)], r)),
                          d, Tail(ks), r)

dict_to_xml(root_elm, d, r) ==
    IF d.ty # "dict" THEN [root_elm EXCEPT !.text = d]
    ELSE dict_to_xml_keys(root_elm, d, keys(d, r), r)

\* ElementTree.tostring(elm); the XML text is represented by the element a
\* parser reads from it.  A text that is no string cannot be serialised,
\* and an empty text leaves no text node.
RECURSIVE tostring(_)
tostring(elm) ==
    LET kids == [i \in 1..Len(elm.children) |-> tostring(elm.children[i])]
    IN  IF elm.text.ty \notin {"None", "str"} THEN Raise("TypeError")
        ELSE IF \E i \in 1..Len(kids) : "exc" \in DOMAIN kids[i] THEN Raise("TypeError")
        ELSE Element(elm.tag,
                     (IF elm.text.ty = "str" /\ elm.text.s # <<>>
                      THEN <<Text(elm.text.s)>> ELSE <<>>) \o kids)

\* xml.dom.minidom.parseString(text): the document whose only child is the
\* root element
parseString(text) == [childNodes |-> <<text>>]

_prepare_data_for_save(slf, d, r) ==
    LET items == IF d.ty \in {"list", "tuple"} THEN d.l ELSE <<d>>
        root_elm == [ETElement(slf.name) EXCEPT !.children =
                        [i \in 1..Len(items) |->
                            dict_to_xml(ETElement(slf.singular), items[i], r)]]
    IN  tostring(root_elm)

-----------------------------------------------------------------------------
(* The request builders: Manager.get, save, put, filter and all *)

Request(u, method, b, headers) ==
    [uri |-> u, method |-> method, body |-> b, headers |-> headers]

\* urllib.quote(s): letters, digits and _ . - / are kept, every other
\* character becomes % and its two hexadecimal digits
PercentCode ==
    " " :> <<"2", "0">> @@ "!" :> <<"2", "1">> @@ "\"" :> <<"2", "2">> @@
    "#" :> <<"2", "3">> @@ "$" :> <<"2", "4">> @@ "%" :> <<"2", "5">> @@
    "&" :> <<"2", "6">> @@ "'" :> <<"2", "7">> @@ "(" :> <<"2", "8">> @@
    ")" :> <<"2", "9">> @@ "*" :> <<"2", "A">> @@ "+" :> <<"2", "B">> @@
    "," :> <<"2", "C">> @@ ":" :> <<"3", "A">> @@ ";" :> <<"3", "B">> @@
    "<" :> <<"3", "C">> @@ "=" :> <<"3", "D">> @@ ">" :> <<"3", "E">> @@
    "?" :> <<"3", "F">> @@ "@" :> <<"4", "0">>

quote(s) ==
    concat([i \in 1..Len(s) |->
               IF s[i] \in DOMAIN PercentCode
               THEN <<"%">> \o PercentCode[s[i]]
               ELSE <<s[i]>>])

\* bool(v): the truth value of a Python value
truth(v) ==
    CASE v.ty = "bool" -> v.b
      [] v.ty = "None" -> FALSE
      [] v.ty = "str" -> v.s # <<>>
      [] v.ty = "int" -> v.i # 0
      [] v.ty = "Decimal" -> v.coef # 0
      [] v.ty = "list" -> v.l # <<>>
      [] v.ty = "dict" -> DOMAIN v.d # {}
      [] OTHER -> TRUE

DayNames == << <<"S", "u", "n">>, <<"M", "o", "n">>, <<"T", "u", "e">>, <<"W", "e", "d">>,
               <<"T", "h", "u">>, <<"F", "r", "i">>, <<"S", "a", "t">> >>
MonthNames == << <<"J", "a", "n">>, <<"F", "e", "b">>, <<"M", "a", "r">>, <<"A", "p", "r">>,
                 <<"M", "a", "y">>, <<"J", "u", "n">>, <<"J", "u", "l">>, <<"A", "u", "g">>,
                 <<"S", "e", "p">>, <<"O", "c", "t">>, <<"N", "o", "v">>, <<"D", "e", "c">> >>

\* the day of the week of a date, 0 being Sunday
weekday(ymd) ==
    LET t == <<0, 3, 2, 5, 0, 3, 5, 1, 4, 6, 2, 4>>
        y == IF ymd[2] < 3 THEN ymd[1] - 1 ELSE ymd[1]
    IN  (y + (y \div 4) - (y \div 100) + (y \div 400) + t[ymd[2]] + ymd[3]) % 7

\* val.strftime('%a, %d %b %Y %H:%M:%S GMT')
strftime_http(v) ==
    DayNames[weekday(v.ymd) + 1] \o <<",", " ">> \o zfill(str_nat(v.ymd[3]), 2)
        \o <<" ">> \o MonthNames[v.ymd[2]] \o <<" ">> \o zfill(str_nat(v.ymd[1]), 4)
        \o <<" ">> \o str_time(v) \o <<" ", "G", "M", "T">>

s_IfModifiedSince ==
    <<"I", "f", "-", "M", "o", "d", "i", "f", "i", "e", "d", "-", "S", "i", "n", "c", "e">>
s_page == <<"p", "a", "g", "e">>
s_since == <<"s", "i", "n", "c", "e">>

prepare_filtering_date(val) ==
    Dict(s_IfModifiedSince :>
            Str(IF val.ty = "datetime" THEN strftime_http(val)
                ELSE <<"\"">> \o str(val) \o <<"\"">>))

\* lines 306-314: the literal of the term of key, whose value is value
get_filter_params(key, value) ==
    IF key \in BOOLEAN_FIELDS
    THEN Str(IF truth(value) THEN <<"t", "r", "u", "e">> ELSE <<"f", "a", "l", "s", "e">>)
    ELSE IF key \in DATETIME_FIELDS
    THEN (IF value.ty = "datetime" THEN Str(isoformat(value))
          ELSE IF value.ty = "date" THEN Str(str_date(value))
          ELSE Raise("AttributeError"))
    ELSE IF key \in GUID_FIELDS \/ endswith(key, <<"I", "D">>) \/ value.ty = "UUID"
    THEN Str(<<"G", "u", "i", "d", "(", "\"">> \o str(value) \o <<"\"", ")">>)
    ELSE Str(<<"\"">> \o str(value) \o <<"\"">>)

\* line 323: the operator suffixes
FILTER_OPERATORS ==
    {<<"c", "o", "n", "t", "a", "i", "n", "s">>,
     <<"s", "t", "a", "r", "t", "s", "w", "i", "t", "h">>,
     <<"e", "n", "d", "s", "w", "i", "t", "h">>}

\* line 323: whether the parts of a key select an operator
has_operator(parts) == Len(parts) = 2 /\ parts[2] \in FILTER_OPERATORS

\* lines 316-330: the term of one key
generate_param(key, value) ==
    LET parts == split(key, <<"_", "_">>)
        literal == get_filter_params(key, value)
    IN  IF literal.ty = "raise" THEN literal
        ELSE IF has_operator(parts)
        THEN Str(parts[1] \o <<".">> \o parts[2] \o <<"(">> \o literal.s \o <<")">>)
        ELSE Str(replace_str(key, <<"_">>, <<".">>) \o <<"=", "=">> \o literal.s)

\* Manager.filter(**kw)
filter(slf, kw, r) ==
    LET page == IF s_page \in DOMAIN kw THEN kw[s_page] ELSE None
        kw1 == Restrict(kw, DOMAIN kw \ {s_page})
        base == join(<<"/">>, <<slf.url, slf.name>>)
        headers == IF s_since \in DOMAIN kw1
                   THEN prepare_filtering_date(kw1[s_since])
                   ELSE None
        kw2 == Restrict(kw1, DOMAIN kw1 \ {s_since})
        ks == keys(Dict(kw2), r)
        params == [i \in 1..Len(ks) |-> generate_param(ks[i], kw2[ks[i]])]
        where == IF params # <<>>
                 THEN base \o <<"?", "w", "h", "e", "r", "e", "=">>
                          \o quote(join(<<"&", "&">>, [i \in 1..Len(ks) |-> params[i].s]))
                 ELSE base
        paged == IF truth(page)
                 THEN where \o (IF contains(where, "?") THEN <<"&">> ELSE <<"?">>)
                            \o <<"p", "a", "g", "e", "=">> \o str(page)
                 ELSE where
    IN  IF FirstRaise(params) # None THEN FirstRaise(params)
        ELSE Request(paged, "get", None, headers)

\* Manager.get(id, headers)
get(slf, id, headers) ==
    Request(join(<<"/">>, <<slf.url, slf.name, id>>), "get", None, headers)

\* Manager.save_or_put(data, method)
save_or_put(slf, d, method, r) ==
    Request(join(<<"/">>, <<slf.url, slf.name>>), method,
            Dict(<<"x", "m", "l">> :> _prepare_data_for_save(slf, d, r)), None)

save(slf, d, r) == save_or_put(slf, d, "post", r)

put(slf, d, r) == save_or_put(slf, d, "put", r)

\* an all that asks for the first page
all_paged(slf) ==
    Request(join(<<"/">>, <<slf.url, slf.name>>) \o <<"?", "p", "a", "g", "e", "=", "1">>,
            "get", None, None)

\* Manager.all()
all(slf) == Request(join(<<"/">>, <<slf.url, slf.name>>), "get", None, None)

-----------------------------------------------------------------------------
(* The wrapper of Manager._get_data: the request is sent through the        *)
(* transport and the response is classified.                                *)
(* A response is its status code, its content-type header and its text; the *)
(* text is a string, or the element an XML parser reads from it.            *)

Response(status_code, content_type, text) ==
    [status_code |-> status_code, content_type |-> content_type, text |-> text]

\* an error raised with the arguments its constructor is given
RaiseWith(e, args) == [ty |-> "raise", exc |-> e, args |-> args]

s_Response == <<"R", "e", "s", "p", "o", "n", "s", "e">>
s_xml == <<"x", "m", "l">>
s_ContentType == <<"C", "o", "n", "t", "e", "n", "t", "-", "T", "y", "p", "e">>
s_Accept == <<"A", "c", "c", "e", "p", "t">>
s_application_xml ==
    <<"a", "p", "p", "l", "i", "c", "a", "t", "i", "o", "n", "/", "x", "m", "l">>
s_application_pdf ==
    <<"a", "p", "p", "l", "i", "c", "a", "t", "i", "o", "n", "/", "p", "d", "f">>
s_application_json ==
    <<"a", "p", "p", "l", "i", "c", "a", "t", "i", "o", "n", "/", "j", "s", "o", "n">>

\* urlparse.parse_qs(qs): the fields of the pieces between & and ; that
\* hold an = followed by a value; + stands for a blank
parse_qs_pairs(qs) ==
    LET amp == split(qs, <<"&">>)
        pieces == concat([i \in 1..Len(amp) |-> split(amp[i], <<";">>)])
        nv(p) == LET i == find(p, <<"=">>, 1)
                 IN  IF i = 0 THEN <<p>>
                     ELSE <<SubSeq(p, 1, i - 1), SubSeq(p, i + 1, Len(p))>>
        kept == SelectSeq(pieces, LAMBDA p : Len(nv(p)) = 2 /\ nv(p)[2] # <<>>)
    IN  [i \in 1..Len(kept) |->
            <<replace(nv(kept[i])[1], "+", " "), replace(nv(kept[i])[2], "+", " ")>>]

\* a parser that finds no field
parse_qs_none(qs) == Dict(EmptyDict)

parse_qs(qs) ==
    LET pairs == parse_qs_pairs(qs)
        names == {pairs[i][1] : i \in 1..Len(pairs)}
    IN  Dict([n \in names |->
                List([j \in 1..Len(SelectSeq(pairs, LAMBDA p : p[1] = n)) |->
                        Str(SelectSeq(pairs, LAMBDA p : p[1] = n)[j][2])])])

\* Manager._get_results(data)
_get_results(slf, d) ==
    IF d.ty # "dict" THEN Raise("TypeError")
    ELSE IF s_Response \notin DOMAIN d.d THEN Raise("KeyError")
    ELSE LET plural == slf.name \o <<"s">>
             outer == d.d[s_Response]
             inside ==
                 CASE outer.ty = "dict" -> plural \in DOMAIN outer.d
                   [] outer.ty = "list" -> Str(plural) \in Range(outer.l)
                   [] outer.ty = "str" -> find(outer.s, plural, 1) # 0
                   [] OTHER -> FALSE
             resp == IF inside /\ outer.ty = "dict" THEN outer.d[plural] ELSE outer
         IN  IF inside /\ outer.ty # "dict" THEN Raise("TypeError")
             ELSE IF resp.ty # "dict" THEN Raise("AttributeError")
             ELSE LET result == IF slf.name \in DOMAIN resp.d
                                THEN resp.d[slf.name] ELSE Dict(EmptyDict)
                  IN  IF result.ty = "dict" /\ slf.singular \in DOMAIN result.d
                      THEN result.d[slf.singular]
                      ELSE result

\* lines 215-220: what the wrapper hands to the transport
wrapper_request(req) ==
    IF req.body.ty = "dict" /\ DOMAIN req.body.d # {} /\ s_xml \in DOMAIN req.body.d
    THEN [req EXCEPT !.body = req.body.d[s_xml],
                     !.headers = Dict(Put(IF truth(req.headers) THEN req.headers.d
                                          ELSE <<>>,
                                          s_ContentType, Str(s_application_xml)))]
    ELSE req

\* a wrapper that picks the first entry of a collection
wrapper_results_first(name, results) ==
    IF results.ty = "list" /\ Len(results.l) > 0 THEN results.l[1] ELSE results

\* lines 231-239: what a 200 response gives the caller of method name
wrapper_results(name, results) ==
    IF name = "get" /\ results.ty = "list"
    THEN IF Len(results.l) = 0 THEN Dict(EmptyDict)
         ELSE IF Len(results.l) = 1 THEN results.l[1]
         ELSE Raise("Exception: Multiple objects returned")
    ELSE results

\* a wrapper that knows no status table
wrapper_response_untabled(slf, name, resp) ==
    RaiseWith("XeroExceptionUnknown", <<resp>>)

\* lines 223-270: what the wrapper of method name does with a response
wrapper_response(slf, name, resp) ==
    IF resp.status_code = 200
    THEN IF resp.content_type = s_application_pdf THEN resp.text
         ELSE IF "tagName" \notin DOMAIN resp.text THEN Raise("ExpatError")
         ELSE LET d == convert_to_dict(walk_dom(parseString(resp.text)))
                  results == IF d.ty = "raise" THEN d ELSE _get_results(slf, d)
              IN  IF results.ty = "raise" THEN results
                  ELSE wrapper_results(name, results)
    ELSE IF resp.status_code = 400 THEN RaiseWith("XeroBadRequest", <<resp>>)
    ELSE IF resp.status_code = 401 THEN RaiseWith("XeroUnauthorized", <<resp>>)
    ELSE IF resp.status_code = 403 THEN RaiseWith("XeroForbidden", <<resp>>)
    ELSE IF resp.status_code = 404 THEN RaiseWith("XeroNotFound", <<resp>>)
    ELSE IF resp.status_code = 500 THEN RaiseWith("XeroInternalError", <<resp>>)
    ELSE IF resp.status_code = 501 THEN RaiseWith("XeroNotImplemented", <<resp>>)
    ELSE IF resp.status_code = 503
    THEN LET payload == parse_qs(resp.text.s)
         IN  IF truth(payload)
             THEN RaiseWith("XeroRateLimitExceeded", <<resp, payload>>)
             ELSE RaiseWith("XeroNotAvailable", <<resp>>)
    ELSE RaiseWith("XeroExceptionUnknown", <<resp>>)

-----------------------------------------------------------------------------
(* auth.py: the credentials of the public and the partner OAuth flows.     *)
(* An object is a record of its attributes; a method maps the object and   *)
(* the response it receives to the object it leaves and what it returns    *)
(* or raises.                                                              *)

s_oauth_token == <<"o", "a", "u", "t", "h", "_", "t", "o", "k", "e", "n">>
s_oauth_token_secret ==
    <<"o", "a", "u", "t", "h", "_", "t", "o", "k", "e", "n", "_", "s", "e",
      "c", "r", "e", "t">>
s_oauth_expires_in ==
    <<"o", "a", "u", "t", "h", "_", "e", "x", "p", "i", "r", "e", "s", "_",
      "i", "n">>
s_oauth_session_handle ==
    <<"o", "a", "u", "t", "h", "_", "s", "e", "s", "s", "i", "o", "n", "_",
      "h", "a", "n", "d", "l", "e">>

\* requests_oauthlib.OAuth1(...): the signer, by the keys it signs with
OAuth1(client_key, client_secret, resource_owner_key, resource_owner_secret, rsa_key) ==
    [ty |-> "OAuth1", client_key |-> client_key, client_secret |-> client_secret,
     resource_owner_key |-> resource_owner_key,
     resource_owner_secret |-> resource_owner_secret, rsa_key |-> rsa_key]

\* the outcome of a method: the object it leaves and what it returns or raises
Outcome(slf, result) == [self |-> slf, result |-> result]

\* the branches of a response whose status is not 200
status_error(resp) ==
    IF resp.status_code = 400 THEN RaiseWith("XeroBadRequest", <<resp>>)
    ELSE IF resp.status_code = 401 THEN RaiseWith("XeroUnauthorized", <<resp>>)
    ELSE IF resp.status_code = 403 THEN RaiseWith("XeroForbidden", <<resp>>)
    ELSE IF resp.status_code = 404 THEN RaiseWith("XeroNotFound", <<resp>>)
    ELSE IF resp.status_code = 500 THEN RaiseWith("XeroInternalError", <<resp>>)
    ELSE IF resp.status_code = 501 THEN RaiseWith("XeroNotImplemented", <<resp>>)
    ELSE IF resp.status_code = 503
    THEN LET payload == parse_qs(resp.text.s)
         IN  IF truth(payload)
             THEN RaiseWith("XeroRateLimitExceeded", <<resp, payload>>)
             ELSE RaiseWith("XeroNotAvailable", <<resp>>)
    ELSE RaiseWith("XeroExceptionUnknown", <<resp>>)

\* credentials.get(key)[0], a TypeError when the key is missing
first_of(credentials, key) ==
    IF key \in DOMAIN credentials.d THEN credentials.d[key].l[1]
    ELSE Raise("TypeError")

\* PublicCredentials._init_oauth and its override in PartnerCredentials
_init_oauth(slf, oauth_token, oauth_token_secret) ==
    [slf EXCEPT !.oauth_token = oauth_token,
                !.oauth_token_secret = oauth_token_secret,
                !.verified = Bool(TRUE),
                !._oauth = IF slf.ty = "PartnerCredentials"
                           THEN OAuth1(slf.consumer_key, None, oauth_token,
                                       oauth_token_secret, slf.rsa_key)
                           ELSE OAuth1(slf.consumer_key, slf.consumer_secret,
                                       oauth_token, oauth_token_secret, None)]

\* datetime.datetime.now() + datetime.timedelta(seconds=n): the clock is
\* not read by anything modelled, the instant is kept as its offset
now_plus(n) == [ty |-> "datetime", now_plus |-> n]

\* line 236: the lifetime the response gives, 1800 seconds by default
expires_in(credentials) ==
    IF s_oauth_expires_in \in DOMAIN credentials.d
    THEN int(credentials.d[s_oauth_expires_in].l[1].s)
    ELSE Int_(1800)

\* line 238: the session handle the response gives, None by default
session_handle(credentials) ==
    IF s_oauth_session_handle \in DOMAIN credentials.d
    THEN credentials.d[s_oauth_session_handle].l[1]
    ELSE None

\* lines 236-238, after _init_oauth; expires_time is int(...) or its error
store_expiry(inited, credentials, expires_time) ==
    IF expires_time.ty = "raise" THEN Outcome(inited, expires_time)
    ELSE Outcome([inited EXCEPT !.expiry = now_plus(expires_time.i),
                                !.oauth_session_handle = session_handle(credentials)],
                 None)

\* lines 231-238; token and secret are the arguments of _init_oauth, which
\* is not called when reading either of them raises
store_credentials(slf, credentials, token, secret) ==
    IF token.ty = "raise" THEN Outcome(slf, token)
    ELSE IF secret.ty = "raise" THEN Outcome(slf, secret)
    ELSE store_expiry(_init_oauth(slf, token, secret), credentials,
                      expires_in(credentials))

\* lines 228-238: the branch of a response with status 200
verification_ok(slf, credentials) ==
    store_credentials(slf, credentials, first_of(credentials, s_oauth_token),
                      first_of(credentials, s_oauth_token_secret))

\* PublicCredentials._handle_verification_response(response)
_handle_verification_response(slf, resp) ==
    IF resp.status_code = 200 THEN verification_ok(slf, parse_qs(resp.text.s))
    ELSE Outcome(slf, status_error(resp))

\* lines 144-145: the request token is stored, no object is left when
\* reading it raises
store_request_token(made, token, secret) ==
    IF token.ty = "raise" THEN Outcome(None, token)
    ELSE IF secret.ty = "raise" THEN Outcome(None, secret)
    ELSE Outcome([made EXCEPT !.oauth_token = token,
                              !.oauth_token_secret = secret],
                 None)

\* lines 142-145: the branch of a response with status 200
request_token_ok(made, credentials) ==
    store_request_token(made, first_of(credentials, s_oauth_token),
                        first_of(credentials, s_oauth_token_secret))

\* lines 121-176, the attributes of lines 105-119 being set in made
init_tokens(made, args, resp) ==
    IF truth(args.oauth_token) /\ truth(args.oauth_token_secret)
    THEN IF truth(made.verified)
         THEN Outcome(_init_oauth(made, args.oauth_token, args.oauth_token_secret),
                      None)
         ELSE Outcome([made EXCEPT !.oauth_token = args.oauth_token,
                                   !.oauth_token_secret = args.oauth_token_secret],
                      None)
    ELSE IF resp.status_code = 200
    THEN request_token_ok(made, parse_qs(resp.text.s))
    ELSE Outcome(None, status_error(resp))

\* PublicCredentials.__init__, which PartnerCredentials inherits; cls is the
\* class constructed, args the keyword arguments, resp the response to the
\* request for a token when one is made
PublicCredentials(cls, args, resp) ==
    init_tokens([ty |-> cls,
                 consumer_key |-> args.consumer_key,
                 consumer_secret |-> args.consumer_secret,
                 verified |-> args.verified,
                 _oauth |-> None,
                 expiry |-> args.expiry,
                 rsa_key |-> args.rsa_key,
                 oauth_session_handle |-> args.oauth_session_handle,
                 oauth_token |-> None,
                 oauth_token_secret |-> None],
                args, resp)

\* whether __init__ asks the server for a token
requests_token(args) == ~(truth(args.oauth_token) /\ truth(args.oauth_token_secret))

\* PublicCredentials.verify(verifier)
verify(slf, verifier, resp) == _handle_verification_response(slf, resp)

\* the property PublicCredentials.oauth
oauth(slf) ==
    IF slf._oauth = None
    THEN RaiseWith("XeroNotVerified", <<Str(<<"P", "u", "b", "l", "i", "c">>)>>)
    ELSE slf._oauth

\* PartnerCredentials.refresh_token(): self.oauth is read for the request,
\* which is not sent when the read raises
refresh_token(slf, resp) ==
    IF oauth(slf).ty = "raise" THEN Outcome(slf, oauth(slf))
    ELSE _handle_verification_response(slf, resp)

-----------------------------------------------------------------------------
(* Inputs of the decoder: documents the API can send, bounded *)

MaxSiblings == 3
MaxItems == 2

k_Name == <<"N", "a", "m", "e">>
k_Hours == <<"H", "o", "u", "r", "s">>
k_NumberOfUnit == <<"N", "u", "m", "b", "e", "r", "O", "f", "U", "n", "i", "t">>
k_IsSupplier == <<"I", "s", "S", "u", "p", "p", "l", "i", "e", "r">>
k_Date == <<"D", "a", "t", "e">>
k_UpdatedDateUTC == <<"U", "p", "d", "a", "t", "e", "d", "D", "a", "t", "e", "U", "T", "C">>
k_ContactID == <<"C", "o", "n", "t", "a", "c", "t", "I", "D">>
k_FinancialYearEndDay ==
    <<"F", "i", "n", "a", "n", "c", "i", "a", "l", "Y", "e", "a", "r", "E", "n", "d", "D", "a", "y">>
k_Phones == <<"P", "h", "o", "n", "e", "s">>
k_Addresses == <<"A", "d", "d", "r", "e", "s", "s", "e", "s">>

t_xy == <<"x", "y">>
t_decimal == <<"1", ".", "5">>
t_bool == <<"T", "r", "u", "e">>
t_date == <<"2", "0", "1", "3", "-", "0", "1", "-", "0", "2">>
t_datetime == t_date \o <<"T", "0", "9", ":", "3", "0", ":", "0", "5">>
t_guid ==
    [i \in 1..36 |-> IF i \in {9, 14, 19, 24} THEN "-"
                     ELSE IF i < 9 THEN "A" ELSE IF i < 14 THEN "0"
                     ELSE IF i < 19 THEN "c" ELSE IF i < 24 THEN "7" ELSE "e"]
t_int == <<"3", "0">>

\* every field with a text that is valid for its rule and one that is not
LeafPairs ==
    {<<k_Name, t_xy>>,
     <<k_Hours, t_decimal>>, <<k_Hours, t_xy>>,
     <<k_NumberOfUnit, t_decimal>>, <<k_NumberOfUnit, t_xy>>,
     <<k_IsSupplier, t_bool>>, <<k_IsSupplier, t_xy>>,
     <<k_Date, t_datetime>>, <<k_Date, t_xy>>,
     <<k_UpdatedDateUTC, t_datetime>>, <<k_UpdatedDateUTC, t_xy>>,
     <<k_ContactID, t_guid>>, <<k_ContactID, t_xy>>,
     <<k_FinancialYearEndDay, t_int>>, <<k_FinancialYearEndDay, t_xy>>}

Leaf(key, text) == Element(key, <<Text(text)>>)

LeafNodes == {Leaf(p[1], p[2]) : p \in LeafPairs}

SeqsUpTo(S, n) == UNION {[1..m -> S] : m \in 0..n}

\* the singular form the specification gives a plural field name: the
\* trailing s dropped, then the irregular-plural table consulted
SpecSingular(word) ==
    LET w == SubSeq(word, 1, Len(word) - 1)
    IN  IF w \in DOMAIN PLURAL_EXCEPTIONS THEN PLURAL_EXCEPTIONS[w] ELSE w

PluralKeys == {k_Phones, k_Addresses}

\* what one entry of a collection holds: a record of two fields, a record
\* of one field, or a text
ItemBodies ==
    {<<Leaf(k_Name, t_xy), Leaf(k_NumberOfUnit, t_decimal)>>,
     <<Leaf(k_Name, t_xy)>>,
     <<Text(t_xy)>>}

\* a plural element wrapping 0..MaxItems children named by its singular,
\* alone or after a sibling, with or without the whitespace of indentation
WrapperDocs ==
    {sibs \o <<Element(K, ws \o [i \in 1..Len(items) |-> Element(SpecSingular(K), items[i])])>> :
        sibs \in {<<>>, <<Leaf(k_Name, t_xy)>>},
        K \in PluralKeys,
        ws \in {<<>>, <<Text(<<"\n", " ">>)>>},
        items \in SeqsUpTo(ItemBodies, MaxItems)}

LeafDocs == SeqsUpTo(LeafNodes, MaxSiblings)

Doms == {[childNodes |-> c] : c \in LeafDocs \cup WrapperDocs}

-----------------------------------------------------------------------------
(* Inputs of the encoder: the records a caller can pass to save or put *)

k_Contacts == <<"C", "o", "n", "t", "a", "c", "t", "s">>
k_Info == <<"I", "n", "f", "o">>

XERO_API_URL == <<"%", "s", "/", "a", "p", "i", ".", "x", "r", "o", "/", "2", ".", "0">>

v_datetime == parse(t_datetime)

\* every field name with a value of the type its coercion rule produces
TypedFields ==
    k_Name :> Str(t_xy) @@
    k_Hours :> Decimal(t_decimal) @@
    k_IsSupplier :> Bool(TRUE) @@
    k_Date :> date(parse(t_date)) @@
    k_UpdatedDateUTC :> v_datetime @@
    k_ContactID :> UUID(t_guid) @@
    k_FinancialYearEndDay :> int(t_int)

FlatRecords == {Dict(Restrict(TypedFields, S)) : S \in SUBSET DOMAIN TypedFields}

InnerDicts ==
    {Dict(k_Name :> Str(t_xy) @@ k_NumberOfUnit :> Decimal(t_decimal)),
     Dict(k_Name :> Str(t_xy) @@ k_UpdatedDateUTC :> v_datetime),
     Dict(k_UpdatedDateUTC :> v_datetime),
     Dict(k_Info :> Dict(k_Name :> Str(t_xy) @@ k_UpdatedDateUTC :> v_datetime))}

InnerValues == InnerDicts \cup {Str(t_xy), Decimal(t_decimal), Int_(7)}

ContainerValues == InnerDicts \cup {List(l) : l \in SeqsUpTo(InnerValues, MaxItems)}

\* a record holding a nested mapping or a list under a plural key, under
\* the irregular plural, under a key that is no plural, or under the key
\* that is never sent
NestedRecords ==
    {Dict(base @@ (key :> value)) :
        base \in {EmptyDict, k_Name :> Str(t_xy)},
        key \in {k_Phones, k_Addresses, k_Info, k_UpdatedDateUTC},
        value \in ContainerValues}

SaveData ==
    FlatRecords \cup NestedRecords
        \cup {List(<<Dict(Restrict(TypedFields, {k_Name, k_Hours})),
                     Dict(Restrict(TypedFields, {k_Name, k_UpdatedDateUTC}))>>)}

-----------------------------------------------------------------------------
(* Inputs of filter: the keyword arguments a caller can pass, bounded *)

MaxTerms == 2

k_Name__Contains == k_Name \o <<"_", "_", "C", "o", "n", "t", "a", "i", "n", "s">>
k_Name__contains == k_Name \o <<"_", "_", "c", "o", "n", "t", "a", "i", "n", "s">>
k_Name__endswith == k_Name \o <<"_", "_", "e", "n", "d", "s", "w", "i", "t", "h">>
k_Contact_Name == <<"C", "o", "n", "t", "a", "c", "t", "_">> \o k_Name
k_Contact_Name__startswith ==
    k_Contact_Name \o <<"_", "_", "s", "t", "a", "r", "t", "s", "w", "i", "t", "h">>

k_ContactID__contains ==
    k_ContactID \o <<"_", "_", "c", "o", "n", "t", "a", "i", "n", "s">>

v_John == Str(<<"J", "o", "h", "n">>)
v_uuid == UUID(t_guid)

FilterValues ==
    k_Name :> {v_John, v_uuid, Bool(TRUE), v_datetime} @@
    k_Name__Contains :> {v_John} @@
    k_Name__contains :> {v_John} @@
    k_Name__endswith :> {v_John} @@
    k_Contact_Name :> {v_John} @@
    k_Contact_Name__startswith :> {v_John} @@
    k_IsSupplier :> {Bool(TRUE), Bool(FALSE)} @@
    k_ContactID :> {v_uuid, Str(t_guid)} @@
    k_ContactID__contains :> {Str(t_guid)} @@
    k_UpdatedDateUTC :> {v_datetime, v_John} @@
    s_page :> {Int_(2), Int_(0)} @@
    s_since :> {v_datetime, v_John}

FilterKwargs ==
    UNION {{Dict(f) : f \in {g \in [S -> UNION Range(FilterValues)] :
                                \A k \in S : g[k] \in FilterValues[k]}} :
           S \in {T \in SUBSET DOMAIN FilterValues : Cardinality(T) <= MaxTerms}}

-----------------------------------------------------------------------------
(* Inputs of the operations: the managers, the arguments of the calls and   *)
(* the responses the transport can deliver, bounded                         *)

MaxBodyLen == 3
MaxEntries == 2

k_Organisation == <<"O", "r", "g", "a", "n", "i", "s", "a", "t", "i", "o", "n">>
k_Contact == <<"C", "o", "n", "t", "a", "c", "t">>
k_Id == <<"I", "d">>

Managers == {Manager(k_Contacts, XERO_API_URL), Manager(k_Organisation, XERO_API_URL)}

GetHeaders == {None, Dict(s_Accept :> Str(s_application_json))}

\* records for save and put: flat, nested, and one whose text is no string
CallData ==
    {Dict(Restrict(TypedFields, {k_Name})),
     Dict(Restrict(TypedFields, {k_Name, k_IsSupplier, k_UpdatedDateUTC})),
     Dict(k_Name :> Str(t_xy) @@ k_Phones :> List(<<Str(t_xy), Str(t_xy)>>)),
     Int_(7)}

CallKwargs == {kw \in FilterKwargs : Cardinality(DOMAIN kw.d) <= 1}

StatusCodes == {200, 201, 400, 401, 403, 404, 500, 501, 502, 503}

BodyChars == {"a", "=", "&", "+"}

TextBodies == {Str(s) : s \in SeqsUpTo(BodyChars, MaxBodyLen)}

EntryBodies ==
    {<<Leaf(k_Name, t_xy)>>,
     <<Leaf(k_Name, t_xy), Leaf(k_IsSupplier, t_bool)>>}

Entries(tag) ==
    {[i \in 1..Len(b) |-> Element(tag, b[i])] : b \in SeqsUpTo(EntryBodies, MaxEntries)}

\* the Response envelope, with or without its Id, around nothing, around a
\* single record, or around a collection of 0..MaxEntries entries
ResponseDocs ==
    {Element(s_Response, head \o inner) :
        head \in {<<>>, <<Leaf(k_Id, t_xy)>>},
        inner \in {<<>>}
            \cup {<<Element(k_Contact, b)>> : b \in EntryBodies}
            \cup {<<Element(w, es)>> :
                    w \in {k_Contacts, k_Organisation \o <<"s">>},
                    es \in Entries(k_Contact) \cup Entries(k_Organisation)}}

\* a full page, as the API counts it
FullPage ==
    Element(s_Response,
            <<Leaf(k_Id, t_xy),
              Element(k_Contacts,
                      [i \in 1..100 |-> Element(k_Contact, <<Leaf(k_Name, t_xy)>>)])>>)

Responses ==
    {Response(code, ct, text) :
        code \in StatusCodes,
        ct \in {s_application_xml, s_application_pdf},
        text \in TextBodies}
    \cup {Response(200, ct, text) :
            ct \in {s_application_xml, s_application_pdf},
            text \in ResponseDocs \cup {FullPage}}

-----------------------------------------------------------------------------
(* Inputs of the date decoding: the texts of date and datetime fields *)

IsoDates ==
    {<<"2", "0", "0", "1", "-", "0", "1", "-", "0", "1">>,
     <<"2", "0", "1", "3", "-", "0", "1", "-", "0", "1">>}

\* YYYY-MM-DDTHH:MM:SS, with every field of the time zero or not
IsoTexts ==
    {d \o <<"T">> \o hh \o <<":">> \o mm \o <<":">> \o ss :
        d \in IsoDates,
        hh \in {<<"0", "0">>, <<"0", "9">>},
        mm \in {<<"0", "0">>, <<"3", "0">>},
        ss \in {<<"0", "0">>, <<"0", "5">>}}

\* the same literals, not exact: a blank before or after, a Z after, a
\* blank for the T, no seconds
InexactTexts ==
    UNION {{<<" ">> \o t, t \o <<" ">>, t \o <<"Z">>, replace(t, "T", " "),
            SubSeq(t, 1, 16)} : t \in IsoTexts}

s_Date_open == <<"/", "D", "a", "t", "e", "(">>
s_Date_close == <<")", "/">>

\* /Date(<millis>)/ and /Date(<millis><sign><HH><MM>)/
MsTexts ==
    {s_Date_open \o ms \o off \o s_Date_close :
        ms \in {<<"1", "3", "7", "6", "5", "4", "3", "0", "5", "5", "9", "9", "7">>,
                <<"8", "6", "3", "9", "9", "9", "9", "9">>,
                <<"1", "0", "0", "0">>},
        off \in {<<>>, <<"+", "0", "0", "0", "0">>, <<"+", "1", "2", "0", "0">>,
                 <<"-", "0", "3", "0", "0">>}}

DateTexts == IsoTexts \cup InexactTexts \cup MsTexts

\* a field of DATE_FIELDS and one of DATETIME_FIELDS
DateKeys == {k_Date, k_UpdatedDateUTC}

\* a record holding a name and a date field
DateDoms ==
    {[childNodes |-> <<Leaf(k_Name, t_xy), Leaf(key, text)>>] :
        key \in DateKeys, text \in DateTexts}

-----------------------------------------------------------------------------
(* Inputs of the singular forms: names, bounded *)

MaxWordLen == 3

WordChars == {"a", "e", "s", "S"}

k_Invoices == <<"I", "n", "v", "o", "i", "c", "e", "s">>
k_Addresse == <<"A", "d", "d", "r", "e", "s", "s", "e">>
k_Address == <<"A", "d", "d", "r", "e", "s", "s">>
k_Status == <<"S", "t", "a", "t", "u", "s">>

Words ==
    (SeqsUpTo(WordChars, MaxWordLen) \ {<<>>})
        \cup {k_Invoices, k_Addresses, k_Addresse, k_Address, k_Contacts, k_Contact,
              k_Organisation, k_Phones, k_Hours, k_Status, k_Name}

-----------------------------------------------------------------------------
(* Inputs of the credentials: the arguments of the constructor and the     *)
(* responses of the token endpoints, bounded                               *)

MaxAuthCalls == 2

t_key == <<"k", "0">>
t_consumer_secret == <<"c", "0">>
t_token == <<"t", "0">>
t_token_secret == <<"s", "0">>
t_handle == <<"h", "0">>
t_rsa == <<"r", "0">>

\* the keyword arguments of the constructor: the flag, the tokens and the
\* session handle are given or left at their defaults
AuthArgs ==
    [consumer_key : {Str(t_key)},
     consumer_secret : {Str(t_consumer_secret)},
     verified : {Bool(FALSE), Bool(TRUE)},
     oauth_token : {None, Str(t_token)},
     oauth_token_secret : {None, Str(t_token_secret)},
     oauth_session_handle : {None, Str(t_handle)},
     expiry : {None},
     rsa_key : {Str(t_rsa)}]

AuthClasses == {"PublicCredentials", "PartnerCredentials"}

q_token == s_oauth_token \o <<"=", "t", "1">>
q_secret == s_oauth_token_secret \o <<"=", "s", "1">>
q_expires == s_oauth_expires_in \o <<"=", "6", "0">>
q_expires_bad == s_oauth_expires_in \o <<"=", "x", "y">>
q_handle == s_oauth_session_handle \o <<"=", "h", "1">>

\* what a token endpoint answers with: both tokens, with or without the
\* expiry and the session handle, an expiry that is no number, one token
\* only, or nothing
AuthTexts ==
    {q_token \o <<"&">> \o q_secret,
     q_token \o <<"&">> \o q_secret \o <<"&">> \o q_expires \o <<"&">> \o q_handle,
     q_token \o <<"&">> \o q_secret \o <<"&">> \o q_expires_bad,
     q_token,
     <<>>}

\* the text of a response is read when its status is 200 or 503
AuthResponses ==
    {Response(200, None, Str(t)) : t \in AuthTexts}
        \cup {Response(503, None, Str(t)) : t \in {q_token, <<>>}}
        \cup {Response(code, None, Str(<<>>)) : code \in StatusCodes \ {200, 503}}

-----------------------------------------------------------------------------
(* SPECIFICATION *)

Init ==
    /\ self \in Managers
    /\ pc = "idle"
    /\ op = "none"
    /\ request = None
    /\ calls = 0
    /\ response = None
    /\ outcome = None
    /\ dom = None
    /\ deep_list = <<>>
    /\ decoded = None
    /\ data = None
    /\ rev = FALSE
    /\ body = None
    /\ kwargs = Dict(EmptyDict)

\* a wrapper that calls the transport a second time
Send_twice(name, req) ==
    /\ op' = name
    /\ request' = IF "uri" \in DOMAIN req THEN wrapper_request(req) ELSE request
    /\ calls' = calls + 2
    /\ outcome' = outcome
    /\ pc' = "sent"
    /\ UNCHANGED <<self, response, dom, deep_list, decoded, body>>

\* lines 215-221: the method named name has built req (or raised); the
\* wrapper sends it through the transport
Send(name, req) ==
    /\ op' = name
    /\ IF "uri" \in DOMAIN req
          /\ (req.body.ty = "dict" => "exc" \notin DOMAIN req.body.d[s_xml])
       THEN /\ request' = wrapper_request(req)
            /\ calls' = calls + 1
            /\ outcome' = outcome
            /\ pc' = "sent"
       ELSE /\ request' = request
            /\ calls' = calls
            /\ outcome' = IF "uri" \in DOMAIN req THEN req.body.d[s_xml] ELSE req
            /\ pc' = "done"
    /\ UNCHANGED <<self, response, dom, deep_list, decoded, body>>

CallGet ==
    /\ pc = "idle"
    /\ \E headers \in GetHeaders : Send("get", get(self, t_guid, headers))
    /\ UNCHANGED <<data, rev, kwargs>>

CallSave ==
    /\ pc = "idle"
    /\ \E d \in CallData, r \in BOOLEAN :
          /\ data' = d
          /\ rev' = r
          /\ Send("save", save(self, d, r))
    /\ UNCHANGED kwargs

CallPut ==
    /\ pc = "idle"
    /\ \E d \in CallData, r \in BOOLEAN :
          /\ data' = d
          /\ rev' = r
          /\ Send("put", put(self, d, r))
    /\ UNCHANGED kwargs

CallFilter ==
    /\ pc = "idle"
    /\ \E kw \in CallKwargs :
          /\ kwargs' = kw
          /\ Send("filter", filter(self, kw.d, rev))
    /\ UNCHANGED <<data, rev>>

CallAll ==
    /\ pc = "idle"
    /\ Send("all", all(self))
    /\ UNCHANGED <<data, rev, kwargs>>

\* lines 221-270: the transport delivers a response and the wrapper returns
\* or raises
Receive ==
    /\ pc = "sent"
    /\ \E resp \in Responses :
          /\ response' = resp
          /\ outcome' = wrapper_response(self, op, resp)
    /\ pc' = "done"
    /\ UNCHANGED <<self, op, request, calls, dom, deep_list, decoded, data, rev,
                   body, kwargs>>

Next == CallGet \/ CallSave \/ CallPut \/ CallFilter \/ CallAll \/ Receive

Spec == Init /\ [][Next]_vars

-----------------------------------------------------------------------------
(* The decoder alone: a document is drawn, then walk_dom and               *)
(* convert_to_dict are applied to it.                                      *)

InitDecode ==
    /\ self = None
    /\ pc = "idle"
    /\ op = "none"
    /\ request = None
    /\ calls = 0
    /\ response = None
    /\ outcome = None
    /\ dom \in Doms
    /\ deep_list = <<>>
    /\ decoded = None
    /\ data = None
    /\ rev = FALSE
    /\ body = None
    /\ kwargs = Dict(EmptyDict)

Decode ==
    /\ pc = "idle"
    /\ deep_list' = walk_dom(dom)
    /\ decoded' = convert_to_dict(deep_list')
    /\ pc' = "done"
    /\ UNCHANGED <<self, op, request, calls, response, outcome, dom, data, rev,
                   body, kwargs>>

NextDecode == Decode

SpecDecode == InitDecode /\ [][NextDecode]_vars

-----------------------------------------------------------------------------
(* The encoder alone: a record is drawn and encoded as save and put encode  *)
(* it, then the document is parsed and decoded again.                       *)

InitEncode ==
    /\ self = Manager(k_Contacts, XERO_API_URL)
    /\ pc = "idle"
    /\ op = "none"
    /\ request = None
    /\ calls = 0
    /\ response = None
    /\ outcome = None
    /\ dom = None
    /\ deep_list = <<>>
    /\ decoded = None
    /\ data \in SaveData
    /\ rev \in BOOLEAN
    /\ body = None
    /\ kwargs = Dict(EmptyDict)

Encode ==
    /\ pc = "idle"
    /\ body' = _prepare_data_for_save(self, data, rev)
    /\ pc' = "encoded"
    /\ UNCHANGED <<self, op, request, calls, response, outcome, dom, deep_list,
                   decoded, data, rev, kwargs>>

DecodeBack ==
    /\ pc = "encoded"
    /\ "tagName" \in DOMAIN body
    /\ dom' = parseString(body)
    /\ deep_list' = walk_dom(dom')
    /\ decoded' = convert_to_dict(deep_list')
    /\ pc' = "done"
    /\ UNCHANGED <<self, op, request, calls, response, outcome, data, rev, body,
                   kwargs>>

NextEncode == Encode \/ DecodeBack

SpecEncode == InitEncode /\ [][NextEncode]_vars

-----------------------------------------------------------------------------
(* filter alone: keyword arguments are drawn and filter builds the request *)

InitFilter ==
    /\ self = Manager(k_Contacts, XERO_API_URL)
    /\ pc = "idle"
    /\ op = "none"
    /\ request = None
    /\ calls = 0
    /\ response = None
    /\ outcome = None
    /\ dom = None
    /\ deep_list = <<>>
    /\ decoded = None
    /\ data = None
    /\ rev \in BOOLEAN
    /\ body = None
    /\ kwargs \in FilterKwargs

Filter ==
    /\ pc = "idle"
    /\ op' = "filter"
    /\ request' = filter(self, kwargs.d, rev)
    /\ pc' = "done"
    /\ UNCHANGED <<self, calls, response, outcome, dom, deep_list, decoded, data,
                   rev, body, kwargs>>

NextFilter == Filter

SpecFilter == InitFilter /\ [][NextFilter]_vars

-----------------------------------------------------------------------------
(* The decoding of dates alone: a record with a date field is drawn and    *)
(* decoded.                                                                 *)

InitDate ==
    /\ self = Manager(k_Contacts, XERO_API_URL)
    /\ pc = "idle"
    /\ op = "none"
    /\ request = None
    /\ calls = 0
    /\ response = None
    /\ outcome = None
    /\ dom \in DateDoms
    /\ deep_list = <<>>
    /\ decoded = None
    /\ data = None
    /\ rev = FALSE
    /\ body = None
    /\ kwargs = Dict(EmptyDict)

DecodeDate ==
    /\ pc = "idle"
    /\ deep_list' = walk_dom(dom)
    /\ decoded' = convert_to_dict(deep_list')
    /\ pc' = "done"
    /\ UNCHANGED <<self, op, request, calls, response, outcome, dom, data, rev,
                   body, kwargs>>

NextDate == DecodeDate

SpecDate == InitDate /\ [][NextDate]_vars

-----------------------------------------------------------------------------
(* The singular forms alone: a name is drawn; its singular is derived by    *)
(* the module's function, by the constructor of a manager of that name, and *)
(* by the encoder for a list under that name.                               *)

InitWords ==
    /\ self = None
    /\ pc = "idle"
    /\ op = "none"
    /\ request = None
    /\ calls = 0
    /\ response = None
    /\ outcome = None
    /\ dom = None
    /\ deep_list = <<>>
    /\ decoded = None
    /\ data \in {Str(w) : w \in Words}
    /\ rev = FALSE
    /\ body = None
    /\ kwargs = Dict(EmptyDict)

Singular ==
    /\ pc = "idle"
    /\ outcome' = Str(singular(data.s))
    /\ self' = Manager(data.s, XERO_API_URL)
    /\ body' = key_element(data.s, List(<<Str(t_xy)>>), rev)
    /\ pc' = "done"
    /\ UNCHANGED <<op, request, calls, response, dom, deep_list, decoded, data, rev,
                   kwargs>>

NextWords == Singular

SpecWords == InitWords /\ [][NextWords]_vars

-----------------------------------------------------------------------------
(* The credentials alone: an object is constructed, then verify,           *)
(* refresh_token and oauth are called on it in any order.                  *)

InitAuth ==
    /\ self = None
    /\ pc = "idle"
    /\ op = "none"
    /\ request = None
    /\ calls = 0
    /\ response = None
    /\ outcome = None
    /\ dom = None
    /\ deep_list = <<>>
    /\ decoded = None
    /\ data \in {Str(c) : c \in AuthClasses}
    /\ rev = FALSE
    /\ body = None
    /\ kwargs \in {Dict(a) : a \in AuthArgs}

\* the constructor; it leaves no object when it raises
Construct ==
    /\ pc = "idle"
    /\ \E resp \in AuthResponses :
          \E made \in {PublicCredentials(data.s, kwargs.d, resp)} :
              /\ self' = made.self
              /\ outcome' = made.result
              /\ response' = IF requests_token(kwargs.d) THEN resp ELSE None
              /\ pc' = IF made.result.ty = "raise" THEN "failed" ELSE "ready"
    /\ op' = "__init__"
    /\ UNCHANGED <<request, calls, dom, deep_list, decoded, data, rev, body, kwargs>>

Verify ==
    /\ pc = "ready"
    /\ calls < MaxAuthCalls
    /\ \E resp \in AuthResponses :
          \E called \in {verify(self, Str(t_xy), resp)} :
              /\ self' = called.self
              /\ outcome' = called.result
              /\ response' = resp
    /\ op' = "verify"
    /\ calls' = calls + 1
    /\ UNCHANGED <<pc, request, dom, deep_list, decoded, data, rev, body, kwargs>>

RefreshToken ==
    /\ pc = "ready"
    /\ self.ty = "PartnerCredentials"
    /\ calls < MaxAuthCalls
    /\ \E resp \in AuthResponses :
          \E called \in {refresh_token(self, resp)} :
              /\ self' = called.self
              /\ outcome' = called.result
              /\ response' = IF oauth(self).ty = "raise" THEN None ELSE resp
    /\ op' = "refresh_token"
    /\ calls' = calls + 1
    /\ UNCHANGED <<pc, request, dom, deep_list, decoded, data, rev, body, kwargs>>

ReadOauth ==
    /\ pc = "ready"
    /\ op # "oauth"
    /\ outcome' = oauth(self)
    /\ op' = "oauth"
    /\ UNCHANGED <<self, pc, request, calls, response, dom, deep_list, decoded,
                   data, rev, body, kwargs>>

NextAuth == Construct \/ Verify \/ RefreshToken \/ ReadOauth

SpecAuth == InitAuth /\ [][NextAuth]_vars

-----------------------------------------------------------------------------
(* CLAIMS *)

IsElement(node) == "tagName" \in DOMAIN node

IsBlankText(node) == "data" \in DOMAIN node /\ strip(node.data) = <<>>

ElementChildren(node) == SelectSeq(node.childNodes, IsElement)

\* a plural element that wraps nothing but children named by its singular form
IsWrapper(node) ==
    /\ IsElement(node)
    /\ node.tagName \in PluralKeys
    /\ \A c \in Range(node.childNodes) :
          IsBlankText(c) \/ (IsElement(c) /\ c.tagName = SpecSingular(node.tagName))

\* C6: decoding an element with a plural name K that wraps 0, 1 or N >= 2
\* children named by K's singular form (Address for Addresses) yields a list
\* under key K with one item per child, never a bare mapping or a missing key.
C6_PluralAlwaysList ==
    (pc = "done" /\ dom # None) =>
        \A i \in DOMAIN dom.childNodes :
            LET node == dom.childNodes[i]
            IN  IsWrapper(node) =>
                    /\ decoded.ty = "dict"
                    /\ node.tagName \in DOMAIN decoded.d
                    /\ decoded.d[node.tagName].ty = "list"
                    /\ Len(decoded.d[node.tagName].l) = Len(ElementChildren(node))

IsLeaf(node) ==
    /\ IsElement(node)
    /\ Len(node.childNodes) = 1
    /\ "data" \in DOMAIN node.childNodes[1]
    /\ strip(node.childNodes[1].data) # <<>>

LeafValue(node) == coerce(node.tagName, strip(node.childNodes[1].data))

\* C9: every leaf text is decoded through the coercion table keyed by its
\* field name alone, however many siblings the leaf has: the value under F
\* is coerce(F, t), and a text malformed for its rule makes the decode fail.
C9_LeafCoercedByName ==
    (/\ pc = "done" /\ dom # None
     /\ dom.childNodes # <<>>
     /\ \A c \in Range(dom.childNodes) : IsLeaf(c)
     /\ \A i, j \in DOMAIN dom.childNodes :
           i # j => dom.childNodes[i].tagName # dom.childNodes[j].tagName) =>
        IF \E c \in Range(dom.childNodes) : LeafValue(c).ty = "raise"
        THEN decoded.ty = "raise"
        ELSE /\ decoded.ty = "dict"
             /\ DOMAIN decoded.d = {c.tagName : c \in Range(dom.childNodes)}
             /\ \A c \in Range(dom.childNodes) : decoded.d[c.tagName] = LeafValue(c)

\* d without the keys that are never sent, at every depth
RECURSIVE Strip(_)
Strip(v) ==
    IF v.ty = "dict"
    THEN Dict([k \in DOMAIN v.d \ NO_SEND_FIELDS |-> Strip(v.d[k])])
    ELSE IF v.ty = "list" THEN List([i \in 1..Len(v.l) |-> Strip(v.l[i])])
    ELSE v

RECURSIVE HasTag(_, _)
HasTag(node, tags) ==
    /\ IsElement(node)
    /\ \/ node.tagName \in tags
       \/ \E i \in 1..Len(node.childNodes) : HasTag(node.childNodes[i], tags)

\* C8: a key of the never-send set (UpdatedDateUTC) leaves no element and
\* nothing of its value in the body encoded for save or put, at every depth
\* and whatever its value: the body is the one the record without those
\* keys is encoded to.
C8_NeverSent ==
    (pc \in {"encoded", "done"} /\ IsElement(body)) =>
        /\ ~HasTag(body, NO_SEND_FIELDS)
        /\ body = _prepare_data_for_save(self, Strip(data), rev)

\* a record with a list under Phones, one item of which holds the never-sent
\* key beside a name, has been encoded
C8_Witness ==
    /\ pc = "encoded"
    /\ IsElement(body)
    /\ data.ty = "dict"
    /\ k_Name \in DOMAIN data.d
    /\ k_Phones \in DOMAIN data.d
    /\ data.d[k_Phones].ty = "list"
    /\ \E i \in 1..Len(data.d[k_Phones].l) :
          /\ data.d[k_Phones].l[i].ty = "dict"
          /\ k_UpdatedDateUTC \in DOMAIN data.d[k_Phones].l[i].d
          /\ k_Name \in DOMAIN data.d[k_Phones].l[i].d

\* a record of the kind the round trip is claimed for: not empty, no key
\* that is never sent, every scalar of the type the coercion table gives
\* its field name, nested records, and lists of such records or of strings
\* under plural field names
RECURSIVE Supported(_)
Supported(v) ==
    /\ v.ty = "dict"
    /\ DOMAIN v.d # {}
    /\ \A k \in DOMAIN v.d :
          /\ k \notin NO_SEND_FIELDS
          /\ CASE v.d[k].ty = "dict" -> Supported(v.d[k])
               [] v.d[k].ty = "list" ->
                     /\ isplural(k)
                     /\ \A i \in 1..Len(v.d[k].l) :
                           \/ v.d[k].l[i].ty = "str"
                           \/ Supported(v.d[k].l[i])
               [] OTHER -> coerce(k, str(v.d[k])) = v.d[k]

\* C7: decoding the document produced by encoding a record of the supported
\* types and collection shapes yields the original record (as the one entry
\* of the entity's collection): same keys, same typed values, same list shapes.
C7_RoundTrip ==
    (data # None /\ Supported(data)) =>
        /\ pc = "encoded" => IsElement(body)
        /\ pc = "done" => decoded = Dict(self.name :> List(<<data>>))


\* the where parameter of a uri, still quoted; None when there is none
where_of(u) ==
    LET parts == split(u, <<"?", "w", "h", "e", "r", "e", "=">>)
    IN  IF Len(parts) = 2 THEN Str(split(parts[2], <<"&">>)[1]) ELSE None

\* the term the specification describes for one keyword argument: the
\* operator suffix is recognised as in Name__Contains, and the field's
\* underscores outside the suffix become dots
ClaimedTerm(key, value) ==
    LET parts == split(key, <<"_", "_">>)
        literal == get_filter_params(key, value).s
    IN  IF Len(parts) = 2 /\ lower(parts[2]) \in FILTER_OPERATORS
        THEN replace_str(parts[1], <<"_">>, <<".">>) \o <<".">> \o parts[2]
                 \o <<"(">> \o literal \o <<")">>
        ELSE replace_str(key, <<"_">>, <<".">>) \o <<"=", "=">> \o literal

\* the keyword arguments left once page and since are taken out
Terms(kw) == Restrict(kw, DOMAIN kw \ {s_page, s_since})

\* C10: filter takes page and since out of its keyword arguments and renders
\* each remaining one as a term of the where parameter: field==literal, or
\* field.operator(literal) when the key ends in a double underscore and
\* contains, startswith or endswith (Name__Contains with John renders
\* Name.Contains("John")), the field's underscores rendered as dots; the
\* terms are joined by && and the whole parameter is URL-quoted.
C10_WhereTerms ==
    (pc = "done" /\ op = "filter" /\ "uri" \in DOMAIN request) =>
        LET kw == Terms(kwargs.d)
            ks == keys(Dict(kw), rev)
        IN  where_of(request.uri) =
                IF ks = <<>> THEN None
                ELSE Str(quote(join(<<"&", "&">>,
                            [i \in 1..Len(ks) |-> ClaimedTerm(ks[i], kw[ks[i]])])))

\* the error the status table gives each code other than 200 and 503
StatusError(code) ==
    CASE code = 400 -> "XeroBadRequest"
      [] code = 401 -> "XeroUnauthorized"
      [] code = 403 -> "XeroForbidden"
      [] code = 404 -> "XeroNotFound"
      [] code = 500 -> "XeroInternalError"
      [] code = 501 -> "XeroNotImplemented"
      [] OTHER -> "XeroExceptionUnknown"

\* the operation has finished on a response of the transport
Received == pc = "done" /\ "status_code" \in DOMAIN response

IsRaise(v) == "exc" \in DOMAIN v

\* C1: whatever the operation and whatever the body, a response whose status
\* is not 200 makes the operation raise, the error is the one the status
\* table gives the code (the Unknown error for a code outside the table),
\* and the error is built from the response; a 503 raises too, its two
\* errors being those of C2.
C1_StatusTable ==
    (Received /\ response.status_code # 200) =>
        /\ IsRaise(outcome)
        /\ outcome.args[1] = response
        /\ response.status_code # 503 =>
              outcome = RaiseWith(StatusError(response.status_code), <<response>>)

\* a put that receives a status outside the table raises the Unknown error
C1_Witness ==
    /\ Received
    /\ op = "put"
    /\ response.status_code = 502
    /\ outcome = RaiseWith("XeroExceptionUnknown", <<response>>)

\* a body has an entry when some = is followed by a character of a value
HasEntry(text) ==
    \E i \in 1..(Len(text) - 1) : text[i] = "=" /\ text[i + 1] \notin {"&", ";"}

\* C2: on a 503 the body is parsed as key=value pairs: with at least one
\* entry the operation raises RateLimitExceeded built from the response and
\* the parsed payload, with none it raises NotAvailable; nothing else
\* happens on a 503.
C2_RateLimitOrNotAvailable ==
    (Received /\ response.status_code = 503) =>
        IF HasEntry(response.text.s)
        THEN /\ outcome.exc = "XeroRateLimitExceeded"
             /\ outcome.args = <<response, parse_qs(response.text.s)>>
             /\ DOMAIN outcome.args[2].d # {}
        ELSE outcome = RaiseWith("XeroNotAvailable", <<response>>)

\* a 503 whose body is a=a raises RateLimitExceeded with the payload {a: [a]}
C2_Witness ==
    /\ Received
    /\ response.status_code = 503
    /\ response.text.s = <<"a", "=", "a">>
    /\ outcome.exc = "XeroRateLimitExceeded"
    /\ outcome.args[2] = Dict(<<"a">> :> List(<<Str(<<"a">>)>>))

HasAccept(req) == req.headers.ty = "dict" /\ s_Accept \in DOMAIN req.headers.d

EntriesOf(slf, doc) ==
    LET wrappers == SelectSeq(ElementChildren(doc),
                              LAMBDA n : n.tagName \in {slf.name, slf.name \o <<"s">>})
    IN  concat([i \in 1..Len(wrappers) |->
                   SelectSeq(ElementChildren(wrappers[i]),
                             LAMBDA n : n.tagName = slf.singular)])

\* the operation has finished on a 200 response holding an XML document
ReceivedDocument ==
    /\ Received
    /\ response.status_code = 200
    /\ response.content_type # s_application_pdf
    /\ "tagName" \in DOMAIN response.text

AllUri == join(<<"/">>, <<self.url, self.name>>)

C5_GetOne ==
    (ReceivedDocument /\ op = "get") =>
        /\ Len(EntriesOf(self, response.text)) > 1 => IsRaise(outcome)
        /\ ~IsRaise(outcome) =>
              LET results == _get_results(self,
                                 convert_to_dict(walk_dom(parseString(response.text))))
              IN  IF results.ty = "list"
                  THEN Len(results.l) = 1 /\ outcome = results.l[1]
                  ELSE outcome = results

\* a get has received two entries and raised the error of multiple objects
C5_Witness ==
    /\ ReceivedDocument
    /\ op = "get"
    /\ Len(EntriesOf(self, response.text)) = 2
    /\ outcome = Raise("Exception: Multiple objects returned")

HasPrefix(s, p) == Len(s) >= Len(p) /\ SubSeq(s, 1, Len(p)) = p

HasSuffix(s, p) == Len(s) >= Len(p) /\ SubSeq(s, Len(s) - Len(p) + 1, Len(s)) = p

\* the field a key names, its operator suffix left out
FieldOf(key) ==
    LET parts == split(key, <<"_", "_">>)
    IN  IF has_operator(parts) THEN parts[1] ELSE key

\* what precedes and what follows the literal in the term of a key
BeforeLiteral(key) ==
    LET parts == split(key, <<"_", "_">>)
    IN  IF has_operator(parts) THEN parts[1] \o <<".">> \o parts[2] \o <<"(">>
        ELSE replace_str(key, <<"_">>, <<".">>) \o <<"=", "=">>

AfterLiteral(key) ==
    IF has_operator(split(key, <<"_", "_">>)) THEN <<")">> ELSE <<>>

\* the literal the specification describes for a value, still quoted as in
\* the uri: by the type of the value, and by the name of the field for ...ID
LiteralAsClaimed(key, value, lit) ==
    CASE value.ty = "bool" ->
            lit = IF value.b THEN <<"t", "r", "u", "e">> ELSE <<"f", "a", "l", "s", "e">>
      [] value.ty = "datetime" ->
            /\ HasPrefix(lit, quote(<<"D", "a", "t", "e", "T", "i", "m", "e", "(">>))
            /\ HasSuffix(lit, quote(<<")">>))
      [] value.ty = "UUID" \/ endswith(FieldOf(key), <<"I", "D">>) ->
            lit = quote(<<"G", "u", "i", "d", "(", "\"">> \o str(value) \o <<"\"", ")">>)
      [] OTHER -> lit = quote(<<"\"">> \o str(value) \o <<"\"">>)

\* C11: the literal of every term of the where parameter is formatted by the
\* type of its value: true or false for a boolean, a DateTime(...) call for
\* a datetime, Guid("...") for a GUID or a field whose name ends in ID, and
\* the text in double quotes otherwise, with or without an operator suffix.
C11_LiteralByType ==
    (pc = "done" /\ op = "filter" /\ DOMAIN Terms(kwargs.d) # {}) =>
        /\ "uri" \in DOMAIN request
        /\ where_of(request.uri) # None
        /\ LET kw == Terms(kwargs.d)
               ks == keys(Dict(kw), rev)
               terms == split(where_of(request.uri).s, quote(<<"&", "&">>))
           IN  /\ Len(terms) = Len(ks)
               /\ \A i \in 1..Len(ks) :
                     LET before == quote(BeforeLiteral(ks[i]))
                         after == quote(AfterLiteral(ks[i]))
                     IN  /\ HasPrefix(terms[i], before)
                         /\ HasSuffix(terms[i], after)
                         /\ LiteralAsClaimed(ks[i], kw[ks[i]],
                                SubSeq(terms[i], Len(before) + 1,
                                       Len(terms[i]) - Len(after)))

\* the date field of the decoded record, its text, and what it decoded to
DateKey == dom.childNodes[2].tagName

DateText == dom.childNodes[2].childNodes[1].data

DateResult == IF IsRaise(decoded) THEN decoded ELSE decoded.d[DateKey]

DateDecoded == pc = "done" /\ dom \in DateDoms

\* the index i, or 1 when i is no index
Max0(i) == IF i < 1 THEN 1 ELSE i

TwoDigits(s, i) == int_of(SubSeq(s, i, i + 1))

\* C12: a text of the form YYYY-MM-DDTHH:MM:SS is parsed to a datetime when
\* its hour, minute or second is not zero, and to a calendar date when all
\* three are zero: 2001-01-01T00:00:00 gives date(2001, 1, 1) and
\* 2013-01-01T09:30:05 gives datetime(2013, 1, 1, 9, 30, 5).
C12_IsoDateOrDatetime ==
    (DateDecoded /\ DateText \in IsoTexts) =>
        LET t == DateText
            ymd == <<int_of(SubSeq(t, 1, 4)), TwoDigits(t, 6), TwoDigits(t, 9)>>
            hms == <<TwoDigits(t, 12), TwoDigits(t, 15), TwoDigits(t, 18)>>
        IN  DateResult = IF hms = <<0, 0, 0>>
                         THEN [ty |-> "date", ymd |-> ymd]
                         ELSE [ty |-> "datetime", ymd |-> ymd, hms |-> hms]

\* the civil date of a number of days since 1970-01-01
CivilFromDays(z) ==
    LET shifted == z + 719468
        era == shifted \div 146097
        doe == shifted - era * 146097
        yoe == (doe - (doe \div 1460) + (doe \div 36524) - (doe \div 146096)) \div 365
        doy == doe - (365 * yoe + (yoe \div 4) - (yoe \div 100))
        mp == (5 * doy + 2) \div 153
        d == doy - ((153 * mp + 2) \div 5) + 1
        m == IF mp < 10 THEN mp + 3 ELSE mp - 9
    IN  <<yoe + era * 400 + (IF m <= 2 THEN 1 ELSE 0), m, d>>

\* the naive datetime the specification gives /Date(<millis>[<sign><HH><MM>])/:
\* the UTC instant of the milliseconds, shifted by the offset
MsDate(text) ==
    LET inner == SubSeq(text, Len(s_Date_open) + 1, Len(text) - Len(s_Date_close))
        signed == inner[Max0(Len(inner) - 4)] \in {"+", "-"}
        digits == IF signed THEN SubSeq(inner, 1, Len(inner) - 5) ELSE inner
        off == IF signed
               THEN (IF inner[Len(inner) - 4] = "-" THEN -1 ELSE 1)
                    * (3600 * TwoDigits(inner, Len(inner) - 3)
                       + 60 * TwoDigits(inner, Len(inner) - 1))
               ELSE 0
        secs == int_of(SubSeq(digits, 1, Len(digits) - 3)) + off
        rest == secs % 86400
    IN  [ty |-> "datetime", ymd |-> CivilFromDays(secs \div 86400),
         hms |-> <<rest \div 3600, (rest % 3600) \div 60, rest % 60>>,
         microsecond |-> 1000 * int_of(SubSeq(digits, Len(digits) - 2, Len(digits)))]

\* C13: a text /Date(<millis>)/ or /Date(<millis><sign><HH><MM>)/ is parsed
\* to the naive datetime of the UTC instant of the milliseconds, plus or
\* minus HH hours and MM minutes, the milliseconds kept; +0000 is accepted
\* and changes nothing.
C13_MsDate ==
    (DateDecoded /\ DateText \in MsTexts) => DateResult = MsDate(DateText)

\* C14: only the entire text is matched: a date literal with a blank before
\* or after it, a Z after it, a blank for its T or no seconds gives None,
\* neither an error nor a date.
C14_ExactMatchOnly ==
    (DateDecoded /\ DateText \in InexactTexts) => DateResult = None

\* the name the encoder gave the entry of a list: the tag of the child made
\* for it, or the tag of the element when the entry was written into it
ChildName(elm) == IF elm.children # <<>> THEN elm.children[1].tag ELSE elm.tag

\* C15: the singular form of a name is the same wherever it is derived (the
\* function singular, the manager's attribute singular, the encoder's name
\* for the entries of a list) and deriving it again changes nothing;
\* Invoices gives Invoice and Addresse gives Address.
C15_SingularAgrees ==
    (pc = "done" /\ data.ty = "str" /\ data.s \in Words) =>
        /\ outcome.s # <<>>
        /\ singular(outcome.s) = outcome.s
        /\ self.singular = outcome.s
        /\ ChildName(body) = outcome.s
        /\ data.s = k_Invoices => outcome.s = SubSeq(k_Invoices, 1, 7)
        /\ data.s = k_Addresse => outcome.s = k_Address

\* the positions of the siblings of a document that carry the tag
SiblingsNamed(nodes, tag) == {i \in DOMAIN nodes : nodes[i].tagName = tag}

\* the decoded values of the siblings that carry the tag, in document order
ValuesNamed(nodes, tag) ==
    LET at == SetToSeq(SiblingsNamed(nodes, tag))
        idx == SortSeq(at, <)
    IN  [i \in 1..Len(idx) |-> LeafValue(nodes[idx[i]])]

\* C16: when the children of an element do not all share one tag, the
\* decoded mapping holds, under every tag that occurs on more than one
\* sibling, the list of all those siblings' values in document order, and
\* under every tag that occurs once its single value.
C16_RepeatedTagsListed ==
    (/\ pc = "done" /\ dom # None
     /\ \A c \in Range(dom.childNodes) : IsLeaf(c) /\ LeafValue(c).ty # "raise"
     /\ Cardinality({c.tagName : c \in Range(dom.childNodes)}) > 1) =>
        /\ decoded.ty = "dict"
        /\ DOMAIN decoded.d = {c.tagName : c \in Range(dom.childNodes)}
        /\ \A tag \in DOMAIN decoded.d :
              LET vals == ValuesNamed(dom.childNodes, tag)
              IN  decoded.d[tag] = IF Len(vals) > 1 THEN List(vals) ELSE vals[1]

\* the children of an element that carry the tag, in document order
ChildrenNamed(node, tag) ==
    LET Named(c) == IsElement(c) /\ c.tagName = tag
    IN  SelectSeq(node.childNodes, Named)

\* the element one entry of a list is serialised to under the tag
EntryElement(tag, entry, r) ==
    tostring(dict_to_xml(ETElement(tag),
                         IF entry.ty = "Decimal" THEN Str(str(entry)) ELSE entry,
                         r))

\* C17: a list under key K is serialised as one element per entry, in
\* order: under a plural K as the children of element K, named by the
\* singular form of K that the exception table gives, which is the name
\* the decoder collapses K by; under any other K as elements named K.
C17_ListAsRepeatedChildren ==
    (pc \in {"encoded", "done"} /\ IsElement(body) /\ data.ty = "dict") =>
        \A K \in DOMAIN data.d \ NO_SEND_FIELDS :
            data.d[K].ty = "list" =>
                LET record == body.childNodes[1]
                    named == ChildrenNamed(record, K)
                    entries == data.d[K].l
                IN  IF isplural(K)
                    THEN /\ Len(named) = 1
                         /\ Len(named[1].childNodes) = Len(entries)
                         /\ \A i \in 1..Len(entries) :
                               /\ named[1].childNodes[i].tagName = SpecSingular(K)
                               /\ named[1].childNodes[i].tagName = singular(K)
                               /\ named[1].childNodes[i] =
                                      EntryElement(singular(K), entries[i], rev)
                    ELSE /\ Len(named) = Len(entries)
                         /\ \A i \in 1..Len(entries) :
                               named[i] = EntryElement(K, entries[i], rev)

\* the attributes a failed call is claimed to leave alone
AuthState(slf) ==
    <<slf.oauth_token, slf.oauth_token_secret, slf.verified, slf.expiry,
      slf.oauth_session_handle>>

\* C18: on every credentials object, after the constructor and after any
\* verify and refresh_token calls, the verified flag is true exactly when
\* the signer is set, so oauth raises XeroNotVerified exactly when the flag
\* is false; and a verify or refresh_token call answered by a status other
\* than 200 raises and leaves the tokens, the flag, the expiry and the
\* session handle as they were.
C18_VerifiedIffSigner ==
    /\ [](pc = "ready" =>
            /\ truth(self.verified) <=> self._oauth # None
            /\ (oauth(self).ty = "raise" /\ oauth(self).exc = "XeroNotVerified")
                  <=> ~truth(self.verified))
    /\ [][(/\ pc = "ready"
           /\ op' \in {"verify", "refresh_token"}
           /\ response' # None
           /\ response'.status_code # 200) =>
              /\ outcome'.ty = "raise"
              /\ AuthState(self') = AuthState(self)]_vars

\* every leaf text below the node is valid for the coercion rule of its field
RECURSIVE TextsValid(_)
TextsValid(node) ==
    IF ~IsElement(node) THEN TRUE
    ELSE IF IsLeaf(node) THEN LeafValue(node).ty # "raise"
    ELSE \A i \in 1..Len(node.childNodes) : TextsValid(node.childNodes[i])

\* C19: the decoder is total on well-formed documents: when every leaf text
\* is valid for its coercion rule, convert_to_dict returns a mapping, a list
\* or a scalar and raises nothing, also for an element whose only child is
\* a text leaf under a name ending in s (Hours, Status).
C19_DecoderTotal ==
    (/\ pc = "done" /\ dom # None
     /\ \A i \in 1..Len(dom.childNodes) : TextsValid(dom.childNodes[i])) =>
        decoded.ty # "raise"
=============================================================================
